---- MODULE Spec2Model ----
(***************************************************************************)
(* Model of the shared-expenses client (src/src/App.tsx): the React        *)
(* component's state, its handlers and effects, together with the two      *)
(* external collaborators it talks to (the identity provider and the       *)
(* "expenses" table with its realtime change feed).                        *)
(*                                                                         *)
(* Strings are sequences of one-character strings, so that trim(),         *)
(* toLowerCase() and split(',') are computed, not assumed.  Amounts are    *)
(* integers; the model only uses even amounts, for which a / 2 is exact,   *)
(* as it is for binary floating point numbers.                             *)
(***************************************************************************)
EXTENDS Integers, Sequences, FiniteSets, Bags, TLC

VARIABLES
    allowedEmails,  \* module constant allowedEmails (list of strings)
    provSession,    \* identity provider: e-mail of the browser's session, or Null
    initPc,         \* session effect: "start" (awaiting getSession) or "done"
    authEvents,     \* onAuthStateChange notifications not yet delivered
    sairPc,         \* sair(): "idle" or "awaiting" (signOut in flight)
    sessionEmail,   \* useState sessionEmail
    email,          \* useState email (login input)
    carregando,     \* useState carregando
    otp,            \* signInWithOtp request in flight: NoOtp or the e-mail sent
    alerta,         \* text of the last alert() shown, "" when none yet
    itens,          \* useState itens (the cached snapshot)
    itensVer,       \* history: store version that itens was read at (-1: never)
    saldo,          \* useMemo saldo
    channels,       \* realtime client: open channels, id -> [filter, pending]
    effectChannel,  \* channel held by the realtime effect's cleanup, 0 when none
    nextChan,       \* next channel id
    reads,          \* bag of select requests in flight
    writes,         \* bag of delete requests in flight
    nome,           \* useState nome (draft: name input)
    valor,          \* useState valor (draft: amount input, raw text)
    tipo,           \* useState tipo
    pagoPor,        \* useState pagoPor
    editando,       \* useState editando: <<>> for null, <<e>> for the record e
    commits,        \* bag of salvarOuAtualizar calls suspended at an await
    console,        \* text of the last console.error() line, "" when none yet
    store,          \* rows of table "expenses"
    storeVer,       \* history: number of changes applied to the table
    nextId          \* next row id / created_at the store assigns

authVars  == <<provSession, initPc, authEvents, sairPc>>
loginVars == <<email, carregando, otp, alerta>>
cacheVars == <<itens, itensVer, saldo>>
chanVars  == <<channels, effectChannel, nextChan>>
storeVars == <<store, storeVer, nextId>>
draftVars == <<nome, valor, tipo, pagoPor, editando>>
vars == <<allowedEmails, authVars, sessionEmail, loginVars, cacheVars,
          chanVars, reads, writes, draftVars, commits, console, storeVars>>

(***************************************************************************)
(* Bounds of the model.                                                    *)
(***************************************************************************)
MaxLen        == 2   \* records in a snapshot drawn for the balance
MaxAuthEvents == 1   \* undelivered identity-change notifications
MaxChan       == 2   \* channels opened in one run
MaxReads      == 2   \* select requests in flight
MaxWrites     == 1   \* delete requests in flight
MaxCommits    == 2   \* salvarOuAtualizar calls in flight
MaxPending    == 2   \* undelivered change notifications per channel
MaxRows       == 2   \* rows in the table
MaxVer        == 2   \* changes applied to the table in one run
Precision     == 11  \* significant bits of a number (53 in JavaScript)

(***************************************************************************)
(* Strings.                                                                *)
(***************************************************************************)
Null == <<"null">>          \* JavaScript null: no string has a 4-letter character

ToLowerChar(c) ==
    CASE c = "A" -> "a"
      [] c = "B" -> "b"
      [] c = "C" -> "c"
      [] OTHER   -> c

ToLower(s) == [i \in 1..Len(s) |-> ToLowerChar(s[i])]

RECURSIVE TrimStart(_)
TrimStart(s) == IF s # <<>> /\ Head(s) = " " THEN TrimStart(Tail(s)) ELSE s

RECURSIVE TrimEnd(_)
TrimEnd(s) ==
    IF s # <<>> /\ s[Len(s)] = " " THEN TrimEnd(SubSeq(s, 1, Len(s) - 1)) ELSE s

Trim(s) == TrimEnd(TrimStart(s))

\* s.split(','): always at least one piece, '' splits into [''].
RECURSIVE SplitFrom(_, _, _)
SplitFrom(s, i, cur) ==
    IF i > Len(s) THEN <<cur>>
    ELSE IF s[i] = "," THEN <<cur>> \o SplitFrom(s, i + 1, <<>>)
    ELSE SplitFrom(s, i + 1, Append(cur, s[i]))

Split(s) == SplitFrom(s, 1, <<>>)

Includes(list, x) == \E i \in 1..Len(list) : list[i] = x

\* A variant that keeps the configured entries in the letter case they have.
ParseAllowedKeepCase(env) ==
    LET parts == Split(env) IN [i \in 1..Len(parts) |-> Trim(parts[i])]

\* String(env.VITE_ALLOWED_EMAILS || '').split(',').map(s => s.trim().toLowerCase())
ParseAllowed(env) ==
    LET parts == Split(env) IN [i \in 1..Len(parts) |-> ToLower(Trim(parts[i]))]

\* The configured list: "a, B".
EnvAllowed == <<"a", ",", " ", "B">>

\* The allow-list test entrar applies to the typed e-mail.
IsAuthorized(identity) == Includes(allowedEmails, ToLower(Trim(identity)))

(***************************************************************************)
(* Records and the balance.                                                *)
(***************************************************************************)
TipoDespesa == {"Shared", "Per Person"}
Pessoa      == {"You", "Wife"}

\* A JavaScript number is a binary floating-point value: the result of
\* every + and - is rounded to the nearest value that has Precision
\* significant bits, a tie going to the even one.  Amounts are counted in
\* hundredths; halving an even count is exact, as halving is in the code.
Abs(x) == IF x < 0 THEN -x ELSE x

\* The distance between neighbouring numbers at magnitude a.
RECURSIVE Ulp(_, _)
Ulp(a, q) == IF a < (2 ^ Precision) * q THEN q ELSE Ulp(a, 2 * q)

RoundToNearestEven(x) ==
    LET a == Abs(x)
        q == Ulp(a, 1)
        m == a \div q
        rem == a % q
        up == 2 * rem > q \/ (2 * rem = q /\ m % 2 = 1)
        v == (IF up THEN m + 1 ELSE m) * q
    IN IF x < 0 THEN -v ELSE v

Plus(a, b)  == RoundToNearestEven(a + b)
Minus(a, b) == RoundToNearestEven(a - b)

RECURSIVE SaldoLoop(_, _, _)
SaldoLoop(list, totalP1, totalP2) ==
    IF list = <<>> THEN <<totalP1, totalP2>>
    ELSE LET e == Head(list) IN
         IF e.type = "Shared"
         THEN IF e.paid_by = "You"
              THEN SaldoLoop(Tail(list), Plus(totalP1, e.amount \div 2), totalP2)
              ELSE SaldoLoop(Tail(list), totalP1, Plus(totalP2, e.amount \div 2))
         ELSE IF e.paid_by = "You"
              THEN SaldoLoop(Tail(list), Plus(totalP1, e.amount), totalP2)
              ELSE SaldoLoop(Tail(list), totalP1, Plus(totalP2, e.amount))

\* A variant that credits an individual expense at half its amount.
SaldoHalfIndividual(list) ==
    LET halved == [i \in 1..Len(list) |-> [list[i] EXCEPT !.type = "Shared"]]
        t == SaldoLoop(halved, 0, 0)
    IN Minus(t[1], t[2])

Saldo(list) == LET t == SaldoLoop(list, 0, 0) IN Minus(t[1], t[2])

\* saldo of part_000 and of part_002: one signed accumulator.
RECURSIVE TotalLoop(_, _)
TotalLoop(list, total) ==
    IF list = <<>> THEN total
    ELSE LET i == Head(list) IN
         IF i.type = "Shared"
         THEN IF i.paid_by = "You"
              THEN TotalLoop(Tail(list), Plus(total, i.amount \div 2))
              ELSE TotalLoop(Tail(list), Minus(total, i.amount \div 2))
         ELSE IF i.paid_by = "You"
              THEN TotalLoop(Tail(list), Plus(total, i.amount))
              ELSE TotalLoop(Tail(list), Minus(total, i.amount))

SaldoPart000(list) == TotalLoop(list, 0)
SaldoPart002(list) == TotalLoop(list, 0)

\* saldo of part_001: totalVoce - totalEla, the fold of App.tsx.
SaldoPart001(list) == LET t == SaldoLoop(list, 0, 0) IN Minus(t[1], t[2])

(***************************************************************************)
(* The "expenses" table and its realtime change feed.                      *)
(***************************************************************************)
SentinelId == 0      \* '00000000-0000-0000-0000-000000000000'

\* The user id the provider gives an identity (session.user.id).
UserIdOf(identity) == <<"#">> \o ToLower(identity)

\* A variant of the table that keeps whole units of an amount only.
NewRowWholeUnits(id, f) ==
    [id |-> id, name |-> f.name, amount |-> (f.amount \div 100) * 100,
     type |-> f.type, paid_by |-> f.paid_by, user_id |-> f.user_id,
     created_at |-> id]

NewRow(id, f) ==
    [id |-> id, name |-> f.name, amount |-> f.amount, type |-> f.type,
     paid_by |-> f.paid_by, user_id |-> f.user_id, created_at |-> id]

\* Rows the other party writes from her own client.
RemoteFields ==
    { [name |-> <<"x">>, amount |-> 100, type |-> "Shared", paid_by |-> "Wife",
       user_id |-> UserIdOf(<<"b">>)] }

InitialRows ==
    { NewRow(1, [name |-> <<"x">>, amount |-> 100, type |-> "Per Person",
                 paid_by |-> "Wife", user_id |-> Null]) }

\* A table that holds a second row, written by the other party.
TwoRows ==
    InitialRows \cup
    { NewRow(2, [name |-> <<"z">>, amount |-> 30, type |-> "Shared",
                 paid_by |-> "You", user_id |-> UserIdOf(<<"b">>)]) }

\* select('*').order('created_at', { ascending: false })
RECURSIVE SelectOrdered(_)
SelectOrdered(rows) ==
    IF rows = {} THEN <<>>
    ELSE LET r == CHOOSE r \in rows : \A q \in rows : q.created_at <= r.created_at
         IN <<r>> \o SelectOrdered(rows \ {r})

\* A variant of the bulk delete whose filter is eq instead of neq.
DeleteNeqAsEq(rows, id) == {r \in rows : ~(r.id = id)}

\* delete().eq('id', id) and delete().neq('id', id): the rows that remain.
DeleteEq(rows, id)  == {r \in rows : ~(r.id = id)}
DeleteNeq(rows, id) == {r \in rows : ~(r.id # id)}

\* A variant without the filter on id: every row takes the new values.
UpdateRowAll(rows, id, f) ==
    {[r EXCEPT !.name = f.name, !.amount = f.amount, !.type = f.type,
               !.paid_by = f.paid_by] : r \in rows}

UpdateRow(rows, id, f) ==
    {IF r.id = id
     THEN [r EXCEPT !.name = f.name, !.amount = f.amount, !.type = f.type,
                    !.paid_by = f.paid_by]
     ELSE r : r \in rows}

\* The subscription the realtime effect asks for.
ChannelFilterInsertOnly == [event |-> "INSERT", schema |-> "public", table |-> "expenses"]

ChannelFilter == [event |-> "*", schema |-> "public", table |-> "expenses"]

Covers(filter, ev) ==
    /\ filter.schema = "public"
    /\ filter.table = "expenses"
    /\ (filter.event = "*" \/ filter.event = ev)

\* One change notification per changed row, to every channel whose filter covers it.
CanNotify(chs, ev, n) ==
    \A c \in DOMAIN chs : Covers(chs[c].filter, ev) => chs[c].pending + n <= MaxPending

Notify(chs, ev, n) ==
    [c \in DOMAIN chs |->
        IF Covers(chs[c].filter, ev) THEN [chs[c] EXCEPT !.pending = @ + n] ELSE chs[c]]

\* A change of the table: the rows become `rows`, n of them were changed.
StoreChange(rows, ev, n) ==
    IF n = 0
    THEN UNCHANGED <<store, storeVer, channels>>
    ELSE /\ storeVer < MaxVer
         /\ CanNotify(channels, ev, n)
         /\ store' = rows
         /\ storeVer' = storeVer + 1
         /\ channels' = Notify(channels, ev, n)

(***************************************************************************)
(* Requests in flight.                                                     *)
(***************************************************************************)
\* A select request; `by` is the caller of buscarDespesas that sent it:
\* "effect" (the realtime effect), "change" (the postgres_changes callback)
\* or "write" (a handler, after its write succeeded).
ReadSent(by) == [phase |-> "sent", by |-> by, error |-> FALSE, data |-> <<>>, ver |-> 0]

One(x) == SetToBag({x})

\* buscarDespesas(), up to its await: one select request leaves.
CanIssueRead(rs) == BagCardinality(rs) < MaxReads
IssueRead(rs, by) == rs (+) One(ReadSent(by))

\* buscarDespesas(), after its await: the snapshot the cache holds next.
ItensAfterReadKeepOnEmpty(old, resp) ==
    IF resp.error \/ resp.data = <<>> THEN old ELSE resp.data

ItensAfterReadClearOnError(old, resp) == IF resp.error THEN <<>> ELSE resp.data

ItensAfterRead(old, resp) == IF resp.error THEN old ELSE resp.data

\* The line buscarDespesas() writes with console.error when the select fails.
ErroAoBuscar == "Erro ao buscar despesas"

(***************************************************************************)
(* The realtime effect, which React runs again whenever sessionEmail       *)
(* changes: the previous run's cleanup first, then the effect body.        *)
(***************************************************************************)
RemoveChannel(chs, c) == [d \in DOMAIN chs \ {c} |-> chs[d]]

EffectCleanupNone(chs, handle) == chs

EffectCleanup(chs, handle) == IF handle = 0 THEN chs ELSE RemoveChannel(chs, handle)

SetSessionEmail(v) ==
    /\ sessionEmail' = v
    /\ IF v = sessionEmail
       THEN UNCHANGED <<chanVars, reads>>
       ELSE LET cleaned == EffectCleanup(channels, effectChannel) IN
            IF v = Null
            THEN /\ channels' = cleaned
                 /\ effectChannel' = 0
                 /\ UNCHANGED <<nextChan, reads>>
            ELSE /\ CanIssueRead(reads)
                 /\ nextChan <= MaxChan
                 /\ reads' = IssueRead(reads, "effect")
                 /\ channels' = cleaned @@
                        (nextChan :> [filter |-> ChannelFilter, pending |-> 0])
                 /\ effectChannel' = nextChan
                 /\ nextChan' = nextChan + 1

(***************************************************************************)
(* Session: the session effect, the provider's notifications, entrar, sair *)
(***************************************************************************)
ProviderIdentities == {<<"a">>, <<"B">>, <<"c">>}
EmailInputs == {<<>>, <<" ", "A">>, <<"c">>}
NoOtp == Null

AcessoRestrito == "Acesso restrito. Use um email autorizado."
LinkEnviado    == "Enviamos um link de acesso para o seu email."
ErrorMessage   == "error.message"

\* s?.user?.email?.toLowerCase() || null
SessionIdentity(s) == IF s = Null \/ s = <<>> THEN Null ELSE ToLower(s)

\* The provider's session changes (a link opened, a session revoked or
\* refreshed); listeners registered by onAuthStateChange are notified.
ProvSessionChange(s) ==
    /\ s # provSession \/ initPc = "done"
    /\ provSession' = s
    /\ IF initPc = "done"
       THEN /\ Len(authEvents) < MaxAuthEvents
            /\ authEvents' = Append(authEvents, s)
       ELSE UNCHANGED authEvents
    /\ UNCHANGED <<allowedEmails, console, draftVars, commits, initPc, sairPc, sessionEmail, loginVars,
                   cacheVars, chanVars, reads, writes, storeVars>>

\* The session effect after `await supabase.auth.getSession()`.
SessionEffectResume ==
    /\ initPc = "start"
    /\ SetSessionEmail(SessionIdentity(provSession))
    /\ initPc' = "done"
    /\ UNCHANGED <<allowedEmails, console, draftVars, commits, provSession, authEvents, sairPc, loginVars,
                   cacheVars, writes, storeVars>>

\* The onAuthStateChange callback.
OnAuthStateChange ==
    /\ authEvents # <<>>
    /\ SetSessionEmail(SessionIdentity(Head(authEvents)))
    /\ authEvents' = Tail(authEvents)
    /\ UNCHANGED <<allowedEmails, console, draftVars, commits, provSession, initPc, sairPc, loginVars,
                   cacheVars, writes, storeVars>>

\* onChange of the e-mail input (login screen).
SetEmail(v) ==
    /\ sessionEmail = Null
    /\ v # email
    /\ email' = v
    /\ UNCHANGED <<allowedEmails, console, draftVars, commits, authVars, sessionEmail, carregando, otp, alerta,
                   cacheVars, chanVars, reads, writes, storeVars>>

\* entrar(), up to its await.  The button is disabled while carregando || !email.
EntrarNoCheck ==
    /\ sessionEmail = Null
    /\ ~carregando
    /\ email # <<>>
    /\ carregando' = TRUE
    /\ otp' = ToLower(Trim(email))
    /\ UNCHANGED <<allowedEmails, console, draftVars, commits, authVars, sessionEmail, email, alerta, cacheVars,
                   chanVars, reads, writes, storeVars>>

Entrar ==
    /\ sessionEmail = Null
    /\ ~carregando
    /\ email # <<>>
    /\ LET e == ToLower(Trim(email)) IN
       IF ~Includes(allowedEmails, e)
       THEN /\ alerta' = AcessoRestrito
            /\ UNCHANGED <<carregando, otp>>
       ELSE /\ carregando' = TRUE
            /\ otp' = e
            /\ UNCHANGED alerta
    /\ UNCHANGED <<allowedEmails, console, draftVars, commits, authVars, sessionEmail, email, cacheVars,
                   chanVars, reads, writes, storeVars>>

\* A variant that takes the answer of the request for a session.
EntrarResumeSignsIn(error) ==
    /\ otp # NoOtp
    /\ otp' = NoOtp
    /\ carregando' = FALSE
    /\ alerta' = IF error THEN ErrorMessage ELSE LinkEnviado
    /\ sessionEmail' = IF error THEN sessionEmail ELSE otp
    /\ UNCHANGED <<allowedEmails, console, draftVars, commits, authVars, email, cacheVars,
                   chanVars, reads, writes, storeVars>>

\* entrar(), after `await supabase.auth.signInWithOtp(...)`.
EntrarResume(error) ==
    /\ otp # NoOtp
    /\ otp' = NoOtp
    /\ carregando' = FALSE
    /\ alerta' = IF error THEN ErrorMessage ELSE LinkEnviado
    /\ UNCHANGED <<allowedEmails, console, draftVars, commits, authVars, sessionEmail, email, cacheVars,
                   chanVars, reads, writes, storeVars>>

\* sair(), up to its await.  The button is on the logged-in screen.
Sair ==
    /\ sessionEmail # Null
    /\ sairPc = "idle"
    /\ sairPc' = "awaiting"
    /\ UNCHANGED <<allowedEmails, console, draftVars, commits, provSession, initPc, authEvents, sessionEmail,
                   loginVars, cacheVars, chanVars, reads, writes, storeVars>>

\* signOut() succeeded: the provider drops the session and notifies; sair returns.
SairResumeOk ==
    /\ sairPc = "awaiting"
    /\ sairPc' = "idle"
    /\ provSession' = Null
    /\ IF initPc = "done"
       THEN /\ Len(authEvents) < MaxAuthEvents
            /\ authEvents' = Append(authEvents, Null)
       ELSE UNCHANGED authEvents
    /\ UNCHANGED <<allowedEmails, console, draftVars, commits, initPc, sessionEmail, loginVars, cacheVars,
                   chanVars, reads, writes, storeVars>>

\* signOut() failed: nothing changes at the provider; sair returns.
SairResumeError ==
    /\ sairPc = "awaiting"
    /\ sairPc' = "idle"
    /\ UNCHANGED <<allowedEmails, console, draftVars, commits, provSession, initPc, authEvents, sessionEmail,
                   loginVars, cacheVars, chanVars, reads, writes, storeVars>>

(***************************************************************************)
(* Ledger cache: buscarDespesas and the realtime callback.                 *)
(***************************************************************************)
InFlight(bag, phase) == {r \in BagToSet(bag) : r.phase = phase}

\* The table answers a select.
StoreRead(r) ==
    /\ r \in InFlight(reads, "sent")
    /\ reads' = (reads (-) One(r)) (+)
                One([r EXCEPT !.phase = "resp", !.data = SelectOrdered(store),
                               !.ver = storeVer])
    /\ UNCHANGED <<allowedEmails, console, draftVars, commits, authVars, sessionEmail, loginVars, cacheVars,
                   chanVars, writes, storeVars>>

\* The select fails.
StoreReadError(r) ==
    /\ r \in InFlight(reads, "sent")
    /\ reads' = (reads (-) One(r)) (+)
                One([r EXCEPT !.phase = "resp", !.error = TRUE])
    /\ UNCHANGED <<allowedEmails, console, draftVars, commits, authVars, sessionEmail, loginVars, cacheVars,
                   chanVars, writes, storeVars>>

\* A variant of buscarDespesas that ends the edit of a record the answer
\* no longer lists.
BuscarDespesasResumeEndsEdit(r) ==
    /\ r \in InFlight(reads, "resp")
    /\ reads' = reads (-) One(r)
    /\ itens' = ItensAfterRead(itens, r)
    /\ itensVer' = IF r.error THEN itensVer ELSE r.ver
    /\ saldo' = Saldo(itens')
    /\ console' = IF r.error THEN ErroAoBuscar ELSE console
    /\ editando' = IF editando # <<>> /\ (\A i \in 1..Len(itens') : itens'[i].id # editando[1].id)
                   THEN <<>> ELSE editando
    /\ UNCHANGED <<allowedEmails, nome, valor, tipo, pagoPor, commits, authVars, sessionEmail,
                   loginVars, chanVars, writes, storeVars>>

\* buscarDespesas(), after its await.
BuscarDespesasResume(r) ==
    /\ r \in InFlight(reads, "resp")
    /\ reads' = reads (-) One(r)
    /\ itens' = ItensAfterRead(itens, r)
    /\ itensVer' = IF r.error THEN itensVer ELSE r.ver
    /\ saldo' = Saldo(itens')
    /\ console' = IF r.error THEN ErroAoBuscar ELSE console
    /\ UNCHANGED <<allowedEmails, draftVars, commits, authVars, sessionEmail, loginVars, chanVars,
                   writes, storeVars>>

\* A variant of the callback that skips the read while one is in flight.
OnPostgresChangeCoalesce(c) ==
    /\ c \in DOMAIN channels
    /\ channels[c].pending > 0
    /\ channels' = [channels EXCEPT ![c].pending = @ - 1]
    /\ reads' = IF reads = EmptyBag THEN IssueRead(reads, "change") ELSE reads
    /\ UNCHANGED <<allowedEmails, console, draftVars, commits, authVars, sessionEmail, loginVars, cacheVars,
                   effectChannel, nextChan, writes, storeVars>>

\* The postgres_changes callback of channel c: buscarDespesas().
OnPostgresChange(c) ==
    /\ c \in DOMAIN channels
    /\ channels[c].pending > 0
    /\ CanIssueRead(reads)
    /\ channels' = [channels EXCEPT ![c].pending = @ - 1]
    /\ reads' = IssueRead(reads, "change")
    /\ UNCHANGED <<allowedEmails, console, draftVars, commits, authVars, sessionEmail, loginVars, cacheVars,
                   effectChannel, nextChan, writes, storeVars>>

(***************************************************************************)
(* Deleting: remover and limparTudo.                                       *)
(***************************************************************************)
Ids(list) == {list[i].id : i \in 1..Len(list)}

\* remover(id), up to its await (the confirm() was accepted; a declined
\* confirm() returns without any effect).
Remover(id) ==
    /\ sessionEmail # Null
    /\ id \in Ids(itens)
    /\ BagCardinality(writes) < MaxWrites
    /\ writes' = writes (+) One([op |-> "eq", id |-> id, phase |-> "sent"])
    /\ UNCHANGED <<allowedEmails, console, draftVars, commits, authVars, sessionEmail, loginVars, cacheVars,
                   chanVars, reads, storeVars>>

\* limparTudo(), up to its await.  The button is shown while itens.length > 0.
LimparTudo ==
    /\ sessionEmail # Null
    /\ Len(itens) > 0
    /\ BagCardinality(writes) < MaxWrites
    /\ writes' = writes (+) One([op |-> "neq", id |-> SentinelId, phase |-> "sent"])
    /\ UNCHANGED <<allowedEmails, console, draftVars, commits, authVars, sessionEmail, loginVars, cacheVars,
                   chanVars, reads, storeVars>>

\* The table executes a delete.
StoreDelete(w) ==
    /\ w \in InFlight(writes, "sent")
    /\ LET rows == IF w.op = "eq" THEN DeleteEq(store, w.id) ELSE DeleteNeq(store, w.id)
       IN StoreChange(rows, "DELETE", Cardinality(store \ rows))
    /\ writes' = (writes (-) One(w)) (+) One([w EXCEPT !.phase = "ok"])
    /\ UNCHANGED <<allowedEmails, console, draftVars, commits, authVars, sessionEmail, loginVars, cacheVars,
                   effectChannel, nextChan, reads, nextId>>

\* The table rejects a delete.
StoreDeleteError(w) ==
    /\ w \in InFlight(writes, "sent")
    /\ writes' = (writes (-) One(w)) (+) One([w EXCEPT !.phase = "error"])
    /\ UNCHANGED <<allowedEmails, console, draftVars, commits, authVars, sessionEmail, loginVars, cacheVars,
                   chanVars, reads, storeVars>>

\* A variant that refreshes whatever the table answered.
DeleteResumeAlwaysRefresh(w) ==
    /\ w \in BagToSet(writes)
    /\ w.phase # "sent"
    /\ writes' = writes (-) One(w)
    /\ alerta' = IF w.phase = "error" THEN ErrorMessage ELSE alerta
    /\ CanIssueRead(reads)
    /\ reads' = IssueRead(reads, "write")
    /\ UNCHANGED <<allowedEmails, console, draftVars, commits, authVars, sessionEmail, email,
                   carregando, otp, cacheVars, chanVars, storeVars>>

\* remover / limparTudo, after the await.
DeleteResume(w) ==
    /\ w \in BagToSet(writes)
    /\ w.phase # "sent"
    /\ writes' = writes (-) One(w)
    /\ IF w.phase = "error"
       THEN /\ alerta' = ErrorMessage
            /\ UNCHANGED reads
       ELSE /\ CanIssueRead(reads)
            /\ reads' = IssueRead(reads, "write")
            /\ UNCHANGED alerta
    /\ UNCHANGED <<allowedEmails, console, draftVars, commits, authVars, sessionEmail, email, carregando, otp,
                   cacheVars, chanVars, storeVars>>

(***************************************************************************)
(* The other party's client writes to the same table.                      *)
(***************************************************************************)
RemoteInsert(f) ==
    /\ Cardinality(store) < MaxRows
    /\ StoreChange(store \cup {NewRow(nextId, f)}, "INSERT", 1)
    /\ nextId' = nextId + 1
    /\ UNCHANGED <<allowedEmails, console, draftVars, commits, authVars, sessionEmail, loginVars, cacheVars,
                   effectChannel, nextChan, reads, writes>>

RemoteUpdate(id, f) ==
    /\ id \in {r.id : r \in store}
    /\ StoreChange(UpdateRow(store, id, f), "UPDATE", 1)
    /\ UNCHANGED <<allowedEmails, console, draftVars, commits, authVars, sessionEmail, loginVars, cacheVars,
                   effectChannel, nextChan, reads, writes, nextId>>

RemoteDelete(id) ==
    /\ id \in {r.id : r \in store}
    /\ StoreChange(DeleteEq(store, id), "DELETE", 1)
    /\ UNCHANGED <<allowedEmails, console, draftVars, commits, authVars, sessionEmail, loginVars, cacheVars,
                   effectChannel, nextChan, reads, writes, nextId>>

(***************************************************************************)
(* Numbers and their text.  An amount is counted in hundredths, so that    *)
(* 12.5 is 1250; the texts the model types have at most two decimals.      *)
(* A number is a record, so that NaN and null are values of the same kind. *)
(***************************************************************************)
DigitChars == <<"0", "1", "2", "3", "4", "5", "6", "7", "8", "9">>

IsDigit(c) == \E d \in 1..Len(DigitChars) : DigitChars[d] = c
DigitValue(c) == (CHOOSE d \in 1..Len(DigitChars) : DigitChars[d] = c) - 1
AllDigits(s) == \A i \in 1..Len(s) : IsDigit(s[i])

RECURSIVE DigitsValue(_)
DigitsValue(s) ==
    IF s = <<>> THEN 0
    ELSE 10 * DigitsValue(SubSeq(s, 1, Len(s) - 1)) + DigitValue(s[Len(s)])

RECURSIVE DigitsOf(_)
DigitsOf(n) ==
    IF n < 10 THEN <<DigitChars[n + 1]>>
    ELSE DigitsOf(n \div 10) \o <<DigitChars[(n % 10) + 1]>>

\* The first position of c in s, 0 when there is none.
IndexOf(s, c) ==
    IF \E i \in 1..Len(s) : s[i] = c
    THEN CHOOSE i \in 1..Len(s) : s[i] = c /\ \A j \in 1..(i - 1) : s[j] # c
    ELSE 0

\* s.replace(from, to) with string arguments: the first occurrence only.
Replace(s, from, to) == IF IndexOf(s, from) = 0 THEN s ELSE [s EXCEPT ![IndexOf(s, from)] = to]

NaN == [finite |-> FALSE, value |-> 0]
Finite(n) == [finite |-> TRUE, value |-> n]

\* An unsigned decimal literal: digits, digits.digits, digits. or .digits
UnsignedNumber(t) ==
    LET dot  == IndexOf(t, ".")
        int  == IF dot = 0 THEN t ELSE SubSeq(t, 1, dot - 1)
        frac == IF dot = 0 THEN <<>> ELSE SubSeq(t, dot + 1, Len(t))
    IN IF AllDigits(int) /\ AllDigits(frac) /\ Len(int) + Len(frac) > 0 /\ Len(frac) <= 2
       THEN Finite(100 * DigitsValue(int) +
                   (IF Len(frac) = 1 THEN 10 * DigitsValue(frac) ELSE DigitsValue(frac)))
       ELSE NaN

\* Number(s): white space around the literal is dropped, and '' is 0.
Number(s) ==
    LET t == Trim(s) IN
    IF t = <<>> THEN Finite(0)
    ELSE IF Head(t) = "-"
         THEN LET u == UnsignedNumber(Tail(t)) IN IF u.finite THEN Finite(-u.value) ELSE NaN
         ELSE IF Head(t) = "+" THEN UnsignedNumber(Tail(t)) ELSE UnsignedNumber(t)

\* String(n): no trailing zeros, no decimal point for a whole number.
String(n) ==
    LET a    == IF n < 0 THEN -n ELSE n
        frac == a % 100
        text == IF frac = 0 THEN <<>>
                ELSE IF frac % 10 = 0 THEN <<".", DigitChars[(frac \div 10) + 1]>>
                ELSE <<".", DigitChars[(frac \div 10) + 1], DigitChars[(frac % 10) + 1]>>
    IN (IF n < 0 THEN <<"-">> ELSE <<>>) \o DigitsOf(a \div 100) \o text

(***************************************************************************)
(* The edit session: the form's draft, iniciarEdicao, the cancel button    *)
(* and salvarOuAtualizar.                                                  *)
(***************************************************************************)
NomeInputs  == {<<" ">>, <<"y">>}
ValorInputs == {<<"a">>, <<"1", "2", ",", "5", "0">>}

\* parseValor(raw): a number whose `finite` is FALSE stands for null.
ParseValor(raw) ==
    LET v == Replace(raw, ",", ".")
        n == Number(v)
    IN IF n.finite THEN n ELSE NaN

\* A variant that does not look at the name.
PodeSalvarAnyName(n, v) == ParseValor(v).finite

PodeSalvar(n, v) == Trim(n) # <<>> /\ ParseValor(v).finite

\* onChange of the inputs and of the two segmented controls.
SetNome(v) ==
    /\ sessionEmail # Null
    /\ v # nome
    /\ nome' = v
    /\ UNCHANGED <<allowedEmails, console, authVars, sessionEmail, loginVars, cacheVars, chanVars,
                   reads, writes, valor, tipo, pagoPor, editando, commits, storeVars>>

SetValor(v) ==
    /\ sessionEmail # Null
    /\ v # valor
    /\ valor' = v
    /\ UNCHANGED <<allowedEmails, console, authVars, sessionEmail, loginVars, cacheVars, chanVars,
                   reads, writes, nome, tipo, pagoPor, editando, commits, storeVars>>

SetTipo(v) ==
    /\ sessionEmail # Null
    /\ v # tipo
    /\ tipo' = v
    /\ UNCHANGED <<allowedEmails, console, authVars, sessionEmail, loginVars, cacheVars, chanVars,
                   reads, writes, nome, valor, pagoPor, editando, commits, storeVars>>

SetPagoPor(v) ==
    /\ sessionEmail # Null
    /\ v # pagoPor
    /\ pagoPor' = v
    /\ UNCHANGED <<allowedEmails, console, authVars, sessionEmail, loginVars, cacheVars, chanVars,
                   reads, writes, nome, valor, tipo, editando, commits, storeVars>>

\* setNome(''); setValor(''); setTipo('Shared'); setPagoPor('You')
ResetDraft ==
    /\ nome' = <<>>
    /\ valor' = <<>>
    /\ tipo' = "Shared"
    /\ pagoPor' = "You"

\* A variant that leaves the amount input as it is.
IniciarEdicaoKeepValor(e) ==
    /\ sessionEmail # Null
    /\ \E i \in 1..Len(itens) : itens[i] = e
    /\ editando' = <<e>>
    /\ nome' = e.name
    /\ tipo' = e.type
    /\ pagoPor' = e.paid_by
    /\ UNCHANGED <<allowedEmails, console, authVars, sessionEmail, loginVars, cacheVars, chanVars,
                   reads, writes, valor, commits, storeVars>>

\* iniciarEdicao(e): the Editar button of a listed record.
IniciarEdicao(e) ==
    /\ sessionEmail # Null
    /\ \E i \in 1..Len(itens) : itens[i] = e
    /\ editando' = <<e>>
    /\ nome' = e.name
    /\ valor' = String(e.amount)
    /\ tipo' = e.type
    /\ pagoPor' = e.paid_by
    /\ UNCHANGED <<allowedEmails, console, authVars, sessionEmail, loginVars, cacheVars, chanVars,
                   reads, writes, commits, storeVars>>

\* A variant that only leaves the edit.
CancelarKeepDraft ==
    /\ sessionEmail # Null
    /\ editando # <<>>
    /\ editando' = <<>>
    /\ UNCHANGED <<allowedEmails, console, authVars, sessionEmail, loginVars, cacheVars, chanVars,
                   reads, writes, nome, valor, tipo, pagoPor, commits, storeVars>>

\* The Cancelar button, which is rendered only while editando is set.
Cancelar ==
    /\ sessionEmail # Null
    /\ editando # <<>>
    /\ editando' = <<>>
    /\ ResetDraft
    /\ UNCHANGED <<allowedEmails, console, authVars, sessionEmail, loginVars, cacheVars, chanVars,
                   reads, writes, commits, storeVars>>

\* A call of salvarOuAtualizar suspended at an await.  Its closure holds the
\* draft of the render it was called in; `id` is editando.id of an update
\* (SentinelId for an insert), `user_id` is filled in after getSession().
\* phase: "session" (awaiting getSession), "sent", "ok", "error".
Commit(op, id, amount, phase) ==
    [op |-> op, id |-> id, name |-> nome, amount |-> amount, type |-> tipo,
     paid_by |-> pagoPor, user_id |-> Null, phase |-> phase]

\* salvarOuAtualizar(), up to its first await.  The button is disabled
\* while !podeSalvar.
SalvarOuAtualizar ==
    /\ sessionEmail # Null
    /\ PodeSalvar(nome, valor)
    /\ BagCardinality(commits) < MaxCommits
    /\ LET v == ParseValor(valor) IN
       IF ~v.finite
       THEN UNCHANGED commits
       ELSE IF editando # <<>>
            THEN commits' = commits (+) One(Commit("update", editando[1].id, v.value, "sent"))
            ELSE commits' = commits (+) One(Commit("insert", SentinelId, v.value, "session"))
    /\ UNCHANGED <<allowedEmails, console, authVars, sessionEmail, loginVars, cacheVars, chanVars,
                   reads, writes, draftVars, storeVars>>

\* A variant that never finds a user.
SessionUserIdNone(s) == Null

\* sessionData.session?.user?.id ?? null
SessionUserId(s) == IF s = Null THEN Null ELSE UserIdOf(s)

\* The insert branch after `await supabase.auth.getSession()`: the insert leaves.
SalvarOuAtualizarSession(w) ==
    /\ w \in InFlight(commits, "session")
    /\ commits' = (commits (-) One(w)) (+)
                  One([w EXCEPT !.user_id = SessionUserId(provSession), !.phase = "sent"])
    /\ UNCHANGED <<allowedEmails, console, authVars, sessionEmail, loginVars, cacheVars, chanVars,
                   reads, writes, draftVars, storeVars>>

\* The table executes update(...).eq('id', w.id).
StoreUpdate(w) ==
    /\ w \in InFlight(commits, "sent")
    /\ w.op = "update"
    /\ StoreChange(UpdateRow(store, w.id, w), "UPDATE",
                   Cardinality({r \in store : r.id = w.id}))
    /\ commits' = (commits (-) One(w)) (+) One([w EXCEPT !.phase = "ok"])
    /\ UNCHANGED <<allowedEmails, console, authVars, sessionEmail, loginVars, cacheVars,
                   effectChannel, nextChan, reads, writes, draftVars, nextId>>

\* The table executes insert(...): the row gets its id and created_at.
StoreInsert(w) ==
    /\ w \in InFlight(commits, "sent")
    /\ w.op = "insert"
    /\ Cardinality(store) < MaxRows
    /\ StoreChange(store \cup {NewRow(nextId, w)}, "INSERT", 1)
    /\ nextId' = nextId + 1
    /\ commits' = (commits (-) One(w)) (+) One([w EXCEPT !.phase = "ok"])
    /\ UNCHANGED <<allowedEmails, console, authVars, sessionEmail, loginVars, cacheVars,
                   effectChannel, nextChan, reads, writes, draftVars>>

\* The table rejects the update or the insert.
StoreWriteError(w) ==
    /\ w \in InFlight(commits, "sent")
    /\ commits' = (commits (-) One(w)) (+) One([w EXCEPT !.phase = "error"])
    /\ UNCHANGED <<allowedEmails, console, authVars, sessionEmail, loginVars, cacheVars, chanVars,
                   reads, writes, draftVars, storeVars>>

\* A variant that discards the draft whatever the table answered.
SalvarOuAtualizarResumeDiscard(w) ==
    /\ w \in BagToSet(commits)
    /\ w.phase \in {"ok", "error"}
    /\ commits' = commits (-) One(w)
    /\ editando' = <<>>
    /\ ResetDraft
    /\ alerta' = IF w.phase = "error" THEN ErrorMessage ELSE alerta
    /\ CanIssueRead(reads)
    /\ reads' = IssueRead(reads, "write")
    /\ UNCHANGED <<allowedEmails, console, authVars, sessionEmail, email, carregando, otp,
                   cacheVars, chanVars, writes, storeVars>>

\* salvarOuAtualizar(), after the await of its write.
SalvarOuAtualizarResume(w) ==
    /\ w \in BagToSet(commits)
    /\ w.phase \in {"ok", "error"}
    /\ commits' = commits (-) One(w)
    /\ IF w.phase = "error"
       THEN /\ alerta' = ErrorMessage
            /\ UNCHANGED <<draftVars, reads>>
       ELSE /\ editando' = IF w.op = "update" THEN <<>> ELSE editando
            /\ ResetDraft
            /\ CanIssueRead(reads)
            /\ reads' = IssueRead(reads, "write")
            /\ UNCHANGED alerta
    /\ UNCHANGED <<allowedEmails, console, authVars, sessionEmail, email, carregando, otp,
                   cacheVars, chanVars, writes, storeVars>>

(***************************************************************************)
(* The whole client.                                                       *)
(***************************************************************************)
InitState ==
    /\ provSession \in ProviderIdentities \cup {Null}
    /\ initPc = "start"
    /\ authEvents = <<>>
    /\ sairPc = "idle"
    /\ sessionEmail = Null
    /\ email = <<>>
    /\ carregando = FALSE
    /\ otp = NoOtp
    /\ alerta = ""
    /\ itens = <<>>
    /\ itensVer = -1
    /\ saldo = Saldo(<<>>)
    /\ channels = <<>>
    /\ effectChannel = 0
    /\ nextChan = 1
    /\ reads = EmptyBag
    /\ writes = EmptyBag
    /\ nome = <<>>
    /\ valor = <<>>
    /\ tipo = "Shared"
    /\ pagoPor = "You"
    /\ editando = <<>>
    /\ commits = EmptyBag
    /\ console = ""

InitClient ==
    /\ allowedEmails = ParseAllowed(EnvAllowed)
    /\ InitState

Init ==
    /\ InitClient
    /\ store = InitialRows
    /\ storeVer = 0
    /\ nextId = 2

SessionNext ==
    \/ \E s \in ProviderIdentities \cup {Null} : ProvSessionChange(s)
    \/ SessionEffectResume
    \/ OnAuthStateChange
    \/ Sair
    \/ SairResumeOk
    \/ SairResumeError

LoginNext ==
    \/ \E v \in EmailInputs : SetEmail(v)
    \/ Entrar
    \/ \E error \in BOOLEAN : EntrarResume(error)

CacheNext ==
    \/ \E r \in BagToSet(reads) : StoreRead(r)
    \/ \E r \in BagToSet(reads) : StoreReadError(r)
    \/ \E r \in BagToSet(reads) : BuscarDespesasResume(r)
    \/ \E c \in DOMAIN channels : OnPostgresChange(c)

DeleteNext ==
    \/ \E id \in Ids(itens) : Remover(id)
    \/ LimparTudo
    \/ \E w \in BagToSet(writes) : StoreDelete(w)
    \/ \E w \in BagToSet(writes) : StoreDeleteError(w)
    \/ \E w \in BagToSet(writes) : DeleteResume(w)

RemoteNext ==
    \/ \E f \in RemoteFields : RemoteInsert(f)
    \/ \E id \in 1..MaxVer + 1, f \in RemoteFields : RemoteUpdate(id, f)
    \/ \E id \in 1..MaxVer + 1 : RemoteDelete(id)

DraftNext ==
    \/ \E v \in NomeInputs : SetNome(v)
    \/ \E v \in ValorInputs : SetValor(v)
    \/ \E v \in TipoDespesa : SetTipo(v)
    \/ \E v \in Pessoa : SetPagoPor(v)
    \/ \E i \in 1..Len(itens) : IniciarEdicao(itens[i])
    \/ Cancelar

CommitNext ==
    \/ SalvarOuAtualizar
    \/ \E w \in BagToSet(commits) : SalvarOuAtualizarSession(w)
    \/ \E w \in BagToSet(commits) : StoreUpdate(w)
    \/ \E w \in BagToSet(commits) : StoreInsert(w)
    \/ \E w \in BagToSet(commits) : StoreWriteError(w)
    \/ \E w \in BagToSet(commits) : SalvarOuAtualizarResume(w)

Next ==
    \/ SessionNext \/ LoginNext \/ CacheNext \/ DeleteNext \/ RemoteNext
    \/ DraftNext \/ CommitNext

Spec == Init /\ [][Next]_vars

(***************************************************************************)
(* Parts of the client, small enough to explore exhaustively.             *)
(***************************************************************************)
\* Session and login, over a table nobody writes to.
SessionSpecNext ==
    \/ SessionNext
    \/ LoginNext
    \/ \E r \in BagToSet(reads) : StoreRead(r)
    \/ \E r \in BagToSet(reads) : BuscarDespesasResume(r)

SpecSession == Init /\ [][SessionSpecNext]_vars

\* The login screen of a browser without a session, under each of several
\* configured lists: "a, B", "A", "b,C" and "c".
EnvInputs == {EnvAllowed, <<"A">>, <<"b", ",", "C">>, <<"c">>}

CaseInputs ==
    EmailInputs \cup {<<"a">>, <<"A">>, <<"b">>, <<"B">>, <<"C">>, <<"B", " ">>}

InitAllow ==
    /\ allowedEmails \in {ParseAllowed(env) : env \in EnvInputs}
    /\ InitState
    /\ provSession = Null
    /\ store = InitialRows
    /\ storeVer = 0
    /\ nextId = 2

AllowNext ==
    \/ \E v \in CaseInputs : SetEmail(v)
    \/ Entrar
    \/ \E error \in BOOLEAN : EntrarResume(error)

SpecAllow == InitAllow /\ [][AllowNext]_vars

\* The login screen under lists that are not set, end in a comma or hold a
\* doubled comma: '', "a,", "a,,B", and "a, B".  The typed texts include
\* blank ones; " " stands for any white space that trim() removes.
BlankEnvInputs == {<<>>, <<"a", ",">>, <<"a", ",", ",", "B">>, EnvAllowed}

BlankInputs == {<<>>, <<" ">>, <<" ", " ">>, <<"a">>, <<"c">>}

InitBlank ==
    /\ allowedEmails \in {ParseAllowed(env) : env \in BlankEnvInputs}
    /\ InitState
    /\ provSession = Null
    /\ store = InitialRows
    /\ storeVer = 0
    /\ nextId = 2

BlankNext ==
    \/ \E v \in BlankInputs : SetEmail(v)
    \/ Entrar
    \/ \E error \in BOOLEAN : EntrarResume(error)

SpecBlank == InitBlank /\ [][BlankNext]_vars

\* The ledger of a browser that holds a session of "a", while the table
\* answers every request: start-up, the cache and both parties' writes.
InitSync == Init /\ provSession = <<"a">>

SyncNext ==
    \/ SessionEffectResume
    \/ \E r \in BagToSet(reads) : StoreRead(r)
    \/ \E r \in BagToSet(reads) : BuscarDespesasResume(r)
    \/ \E c \in DOMAIN channels : OnPostgresChange(c)
    \/ \E id \in Ids(itens) : Remover(id)
    \/ LimparTudo
    \/ \E w \in BagToSet(writes) : StoreDelete(w)
    \/ \E w \in BagToSet(writes) : DeleteResume(w)
    \/ RemoteNext

SpecSync == InitSync /\ [][SyncNext]_vars

\* The same browser while only the other party writes to the table.
NotifySpecNext ==
    \/ SessionEffectResume
    \/ \E r \in BagToSet(reads) : StoreRead(r)
    \/ \E r \in BagToSet(reads) : BuscarDespesasResume(r)
    \/ \E c \in DOMAIN channels : OnPostgresChange(c)
    \/ RemoteNext

SpecNotify == InitSync /\ [][NotifySpecNext]_vars

\* The balance of any snapshot: setItens(list) and the render that follows.
Amounts == {0, 30, 100}

SnapshotFields ==
    [name : {<<"x">>}, amount : Amounts, type : TipoDespesa, paid_by : Pessoa,
     user_id : {Null}]

Snapshots ==
    UNION { { [i \in 1..n |-> NewRow(n + 1 - i, fs[i])] : fs \in [1..n -> SnapshotFields] }
            : n \in 0..MaxLen }

SetItens(list) ==
    /\ itens' = list
    /\ saldo' = Saldo(itens')
    /\ UNCHANGED <<allowedEmails, console, draftVars, commits, authVars, sessionEmail, loginVars, itensVer,
                   chanVars, reads, writes, storeVars>>

SaldoNext == \E list \in Snapshots : SetItens(list)

InitSaldo == Init /\ provSession = Null

SpecSaldo == InitSaldo /\ [][SaldoNext]_vars

\* The balance of snapshots of three records whose amounts are far apart:
\* two hundredths, and the first amount above which odd counts of
\* hundredths are no numbers.
OrderAmounts == {2, 2 ^ (Precision + 1)}

OrderFields ==
    [name : {<<"x">>}, amount : OrderAmounts, type : TipoDespesa, paid_by : Pessoa,
     user_id : {Null}]

OrderSnapshots ==
    { [i \in 1..3 |-> NewRow(4 - i, fs[i])] : fs \in [1..3 -> OrderFields] }

OrderNext == \E list \in OrderSnapshots : SetItens(list)

SpecOrder == InitSaldo /\ [][OrderNext]_vars

\* The form of a browser that holds a session of "a": typing, iniciarEdicao,
\* the cancel button, and the deletes with the refreshes they cause, over a
\* table that may reject a delete.
InitDraft == Init /\ provSession = <<"a">>

DraftSpecNext ==
    \/ SessionEffectResume
    \/ \E r \in BagToSet(reads) : StoreRead(r)
    \/ \E r \in BagToSet(reads) : BuscarDespesasResume(r)
    \/ \E c \in DOMAIN channels : OnPostgresChange(c)
    \/ DraftNext
    \/ DeleteNext

SpecDraft == InitDraft /\ [][DraftSpecNext]_vars

\* The same browser over a table of two rows.
InitTwoRows ==
    /\ InitClient
    /\ provSession = <<"a">>
    /\ store = TwoRows
    /\ storeVer = 0
    /\ nextId = 3

\* Deleting from a table of two rows, which may reject a delete.
ClearSpecNext ==
    \/ SessionEffectResume
    \/ \E r \in BagToSet(reads) : StoreRead(r)
    \/ \E r \in BagToSet(reads) : BuscarDespesasResume(r)
    \/ \E c \in DOMAIN channels : OnPostgresChange(c)
    \/ DeleteNext

SpecClear == InitTwoRows /\ [][ClearSpecNext]_vars

\* Reading a table of two rows that may fail any select, while single rows
\* are deleted.
FailSpecNext ==
    \/ SessionEffectResume
    \/ CacheNext
    \/ \E id \in Ids(itens) : Remover(id)
    \/ \E w \in BagToSet(writes) : StoreDelete(w)
    \/ \E w \in BagToSet(writes) : DeleteResume(w)

SpecFail == InitTwoRows /\ [][FailSpecNext]_vars

\* The browser's own writes while the realtime channel delivers nothing:
\* single deletes and inserts of a typed draft, every request answered
\* without an error.
OwnWriteSpecNext ==
    \/ SessionEffectResume
    \/ \E r \in BagToSet(reads) : StoreRead(r)
    \/ \E r \in BagToSet(reads) : BuscarDespesasResume(r)
    \/ \E id \in Ids(itens) : Remover(id)
    \/ \E w \in BagToSet(writes) : StoreDelete(w)
    \/ \E w \in BagToSet(writes) : DeleteResume(w)
    \/ SetNome(<<"y">>)
    \/ SetValor(<<"1", "2", ",", "5", "0">>)
    \/ SalvarOuAtualizar
    \/ \E w \in BagToSet(commits) : SalvarOuAtualizarSession(w)
    \/ \E w \in BagToSet(commits) : StoreInsert(w)
    \/ \E w \in BagToSet(commits) : SalvarOuAtualizarResume(w)

SpecOwnWrite == InitDraft /\ [][OwnWriteSpecNext]_vars

\* Commits of drafts whose amount is typed with a sign, as inserts and as
\* updates of the listed record.
SignedSpecNext ==
    \/ SessionEffectResume
    \/ \E r \in BagToSet(reads) : StoreRead(r)
    \/ \E r \in BagToSet(reads) : BuscarDespesasResume(r)
    \/ SetNome(<<"y">>)
    \/ SetValor(<<"-", "2">>)
    \/ \E i \in 1..Len(itens) : IniciarEdicao(itens[i])
    \/ SalvarOuAtualizar
    \/ \E w \in BagToSet(commits) : SalvarOuAtualizarSession(w)
    \/ \E w \in BagToSet(commits) : StoreUpdate(w)
    \/ \E w \in BagToSet(commits) : StoreInsert(w)
    \/ \E w \in BagToSet(commits) : SalvarOuAtualizarResume(w)

SpecSigned == InitDraft /\ [][SignedSpecNext]_vars

\* The handlers that could touch the cache or the draft: the refreshes,
\* the end of the session, the edit of a listed record with its commit, and
\* the delete of a record.
OwnerSpecNext ==
    \/ SessionEffectResume
    \/ ProvSessionChange(Null)
    \/ OnAuthStateChange
    \/ \E r \in BagToSet(reads) : StoreRead(r)
    \/ \E r \in BagToSet(reads) : BuscarDespesasResume(r)
    \/ \E i \in 1..Len(itens) : IniciarEdicao(itens[i])
    \/ Cancelar
    \/ SalvarOuAtualizar
    \/ \E w \in BagToSet(commits) : StoreUpdate(w)
    \/ \E w \in BagToSet(commits) : SalvarOuAtualizarResume(w)
    \/ \E id \in Ids(itens) : Remover(id)
    \/ \E w \in BagToSet(writes) : StoreDelete(w)
    \/ \E w \in BagToSet(writes) : DeleteResume(w)

SpecOwner == InitDraft /\ [][OwnerSpecNext]_vars

\* Commits that the table rejects: the draft is typed or taken from the
\* listed record.
RejectSpecNext ==
    \/ SessionEffectResume
    \/ \E r \in BagToSet(reads) : StoreRead(r)
    \/ \E r \in BagToSet(reads) : BuscarDespesasResume(r)
    \/ \E v \in NomeInputs : SetNome(v)
    \/ \E v \in ValorInputs : SetValor(v)
    \/ \E i \in 1..Len(itens) : IniciarEdicao(itens[i])
    \/ SalvarOuAtualizar
    \/ \E w \in BagToSet(commits) : SalvarOuAtualizarSession(w)
    \/ \E w \in BagToSet(commits) : StoreWriteError(w)
    \/ \E w \in BagToSet(commits) : SalvarOuAtualizarResume(w)

SpecReject == InitDraft /\ [][RejectSpecNext]_vars

\* Updates of a listed record of a table of two rows, up to the delivery
\* of the change notifications they cause.
UpdateSpecNext ==
    \/ SessionEffectResume
    \/ \E r \in BagToSet(reads) : StoreRead(r)
    \/ \E r \in BagToSet(reads) : BuscarDespesasResume(r)
    \/ \E v \in ValorInputs : SetValor(v)
    \/ \E i \in 1..Len(itens) : IniciarEdicao(itens[i])
    \/ SalvarOuAtualizar
    \/ \E w \in BagToSet(commits) : StoreUpdate(w)
    \/ \E w \in BagToSet(commits) : SalvarOuAtualizarResume(w)

SpecUpdate == InitTwoRows /\ [][UpdateSpecNext]_vars

\* Inserts of typed drafts, by a browser that holds a session of "B".
InitInsert == Init /\ provSession = <<"B">>

InsertSpecNext ==
    \/ SessionEffectResume
    \/ \E r \in BagToSet(reads) : StoreRead(r)
    \/ \E r \in BagToSet(reads) : BuscarDespesasResume(r)
    \/ \E c \in DOMAIN channels : OnPostgresChange(c)
    \/ SetNome(<<"y">>)
    \/ SetValor(<<"1", "2", ",", "5", "0">>)
    \/ SalvarOuAtualizar
    \/ \E w \in BagToSet(commits) : SalvarOuAtualizarSession(w)
    \/ \E w \in BagToSet(commits) : StoreInsert(w)
    \/ \E w \in BagToSet(commits) : SalvarOuAtualizarResume(w)

SpecInsert == InitInsert /\ [][InsertSpecNext]_vars

\* Commits of typed and of listed records over a table that accepts them.
CommitSpecNext ==
    \/ SessionEffectResume
    \/ \E r \in BagToSet(reads) : StoreRead(r)
    \/ \E r \in BagToSet(reads) : BuscarDespesasResume(r)
    \/ \E c \in DOMAIN channels : OnPostgresChange(c)
    \/ SetNome(<<"y">>)
    \/ \E i \in 1..Len(itens) : IniciarEdicao(itens[i])
    \/ SalvarOuAtualizar
    \/ \E w \in BagToSet(commits) : SalvarOuAtualizarSession(w)
    \/ \E w \in BagToSet(commits) : StoreUpdate(w)
    \/ \E w \in BagToSet(commits) : StoreInsert(w)
    \/ \E w \in BagToSet(commits) : SalvarOuAtualizarResume(w)

SpecCommit == InitDraft /\ [][CommitSpecNext]_vars

(***************************************************************************)
(* Properties.                                                             *)
(***************************************************************************)
Contribution(e) ==
    IF e.type = "Shared"
    THEN IF e.paid_by = "You" THEN e.amount \div 2 ELSE -(e.amount \div 2)
    ELSE IF e.paid_by = "You" THEN e.amount ELSE -e.amount

RECURSIVE SumOfContributions(_)
SumOfContributions(list) ==
    IF list = <<>> THEN 0 ELSE Contribution(Head(list)) + SumOfContributions(Tail(list))

C2_SessionIsAllowListed == sessionEmail # Null => Includes(allowedEmails, sessionEmail)

Quiet ==
    /\ writes = EmptyBag
    /\ \A c \in DOMAIN channels : channels[c].pending = 0

\* C3: once a refresh has completed successfully, the cached snapshot equals
\* the table's current contents.
C3_CacheEqualsStore == itensVer >= 0 => itens = SelectOrdered(store)

\* C3, amended: once a refresh has completed successfully, the cached snapshot
\* equals the table's current contents unless the table has been written since
\* the select of the refresh last applied was served.
C3_CacheEqualsStoreUnlessWrittenSince ==
    itensVer = storeVer => itens = SelectOrdered(store)

\* A refresh served after two changes of the table has been applied.
C3_Witness == itensVer = storeVer /\ storeVer = 2 /\ reads = EmptyBag

\* C4: when the refresh of a local write and the refresh of a change
\* notification have both been answered and nothing else is in flight or
\* pending, applying the two answers in either order leaves the cache equal to
\* the table's contents.
C4_RefreshesConfluent ==
    \A r1, r2 \in BagToSet(reads) :
        ( /\ sessionEmail # Null
          /\ r1.by = "write" /\ r1.phase = "resp" /\ ~r1.error
          /\ r2.by = "change" /\ r2.phase = "resp" /\ ~r2.error
          /\ reads = One(r1) (+) One(r2)
          /\ Quiet )
        => /\ ItensAfterRead(ItensAfterRead(itens, r1), r2) = SelectOrdered(store)
           /\ ItensAfterRead(ItensAfterRead(itens, r2), r1) = SelectOrdered(store)

\* C5: at most one change subscription is open, and none while sessionEmail
\* is null.
C5_SingleSubscription ==
    /\ Cardinality(DOMAIN channels) <= 1
    /\ sessionEmail = Null => DOMAIN channels = {}

\* The session went from one identity to another: the second channel is the
\* only one open.
C5_Witness ==
    /\ sessionEmail = <<"b">>
    /\ DOMAIN channels = {2}
    /\ effectChannel = 2

\* C6: every step in which sessionEmail becomes non-null sends exactly one
\* select and opens exactly one channel, on table expenses, for inserts,
\* updates and deletes.
C6_EntryRefreshesAndSubscribes ==
    [][ (sessionEmail = Null /\ sessionEmail' # Null) =>
          /\ BagCardinality(reads') = BagCardinality(reads) + 1
          /\ CopiesIn(ReadSent("effect"), reads') = CopiesIn(ReadSent("effect"), reads) + 1
          /\ \E c \in DOMAIN channels' :
                /\ DOMAIN channels' = DOMAIN channels \cup {c}
                /\ c \notin DOMAIN channels
                /\ \A ev \in {"INSERT", "UPDATE", "DELETE"} :
                      Covers(channels'[c].filter, ev) ]_vars

\* Just after the start-up entry: one channel, one select under way.
C6_Witness ==
    /\ sessionEmail # Null
    /\ DOMAIN channels = {1}
    /\ reads = One(ReadSent("effect"))
    /\ itensVer = -1

\* The identity the session is to hold for what the provider reports: the
\* identity when there is one and it is on the allow-list, null otherwise.
AuthorizedIdentity(s) ==
    IF s # Null /\ s # <<>> /\ IsAuthorized(s) THEN ToLower(s) ELSE Null

\* C7: every identity-change notification sets the session to the identity it
\* carries if that identity is on the allow-list, and to null otherwise.
C7_NotificationChecksAllowList ==
    [][ OnAuthStateChange => sessionEmail' = AuthorizedIdentity(Head(authEvents)) ]_vars

\* C8: at start-up the session becomes the provider's current identity only
\* if there is one and it is on the allow-list, and null in every other case.
C8_StartupChecksAllowList ==
    [][ SessionEffectResume => sessionEmail' = AuthorizedIdentity(provSession) ]_vars

\* C9: when the sign-out call returns, sessionEmail is null, whether or not
\* the provider notifies and whether or not the request succeeded.
C9_SignOutForcesNull ==
    [][ (sairPc = "awaiting" /\ sairPc' = "idle") => sessionEmail' = Null ]_vars

\* C10: entrar with an e-mail that is not on the allow-list alerts that access
\* is restricted, sends no request to the provider and changes neither
\* sessionEmail nor carregando.
C10_UnauthorizedEntrarIsLocal ==
    [][ (Entrar /\ ~IsAuthorized(email)) =>
          /\ alerta' = AcessoRestrito
          /\ UNCHANGED <<sessionEmail, carregando, otp, provSession, authEvents>> ]_vars

\* The alert follows an attempt with "c", and nothing is under way.
C10_Witness ==
    /\ email = <<"c">>
    /\ alerta = AcessoRestrito
    /\ otp = NoOtp
    /\ ~carregando
    /\ sessionEmail = Null

\* A step that starts a call of salvarOuAtualizar.
CommitStarts == BagCardinality(commits') = BagCardinality(commits) + 1

\* C11: when the table rejects the update or the insert of a commit, the
\* error is alerted, editando and the four draft fields stay as they are,
\* and no select is sent.
C11_RejectedCommitKeepsDraft ==
    [][ \A w \in BagToSet(commits) :
          (w.phase = "error" /\ SalvarOuAtualizarResume(w)) =>
             /\ alerta' = ErrorMessage
             /\ UNCHANGED <<nome, valor, tipo, pagoPor, editando>>
             /\ UNCHANGED <<reads, itens, store>> ]_vars

\* A rejected update has been alerted and the record is still being edited,
\* with the amount that was typed.
C11_Witness ==
    /\ alerta = ErrorMessage
    /\ editando # <<>>
    /\ nome = <<"x">>
    /\ valor = <<"1", "2", ",", "5", "0">>
    /\ commits = EmptyBag

\* C12: a commit starts only from a draft whose name is not blank and whose
\* amount text, its first comma replaced by a period, is a finite number;
\* from any other draft no step starts one.  The commit carries the draft's
\* name and the number parsed, and "12,50" is written as 12.5.
C12_CommitValidatesDraft ==
    [][ /\ CommitStarts =>
              /\ Trim(nome) # <<>>
              /\ valor # <<"a">>
              /\ Number(Replace(valor, ",", ".")).finite
              /\ \E w \in BagToSet(commits') :
                    /\ commits' = commits (+) One(w)
                    /\ w.name = nome
                    /\ w.amount = Number(Replace(valor, ",", ".")).value
                    /\ valor = <<"1", "2", ",", "5", "0">> => w.amount = 1250
        /\ (Trim(nome) = <<>> \/ ~Number(Replace(valor, ",", ".")).finite) =>
              BagCardinality(commits') <= BagCardinality(commits) ]_vars

\* A commit of the draft ("y", "12,50") is under way with amount 12.5.
C12_Witness ==
    \E w \in BagToSet(commits) :
        /\ w.name = <<"y">>
        /\ w.amount = 1250
        /\ nome = <<"y">>
        /\ valor = <<"1", "2", ",", "5", "0">>

\* C13: every successful commit, of an insert or of an update, leaves
\* editando null and the draft at its defaults ('', '', Shared, You), and
\* sends one select.
C13_SuccessfulCommitEndsIdle ==
    [][ \A w \in BagToSet(commits) :
          (w.phase = "ok" /\ SalvarOuAtualizarResume(w)) =>
             /\ editando' = <<>>
             /\ nome' = <<>> /\ valor' = <<>> /\ tipo' = "Shared" /\ pagoPor' = "You"
             /\ reads' = reads (+) One(ReadSent("write")) ]_vars

\* C14: a commit made while editando is set sends one update, addressed by
\* editando.id and carrying the draft's name, parsed amount, type and payer;
\* the table then changes those four columns of the row with that id and
\* nothing else: its id, user_id and created_at stay, every other row stays,
\* and no row appears or disappears.
C14_UpdateTouchesOnlyTarget ==
    [][ /\ (CommitStarts /\ editando # <<>>) =>
              \E w \in BagToSet(commits') :
                 /\ commits' = commits (+) One(w)
                 /\ w.op = "update" /\ w.phase = "sent"
                 /\ w.id = editando[1].id
                 /\ w.name = nome /\ w.type = tipo /\ w.paid_by = pagoPor
                 /\ w.amount = Number(Replace(valor, ",", ".")).value
        /\ \A w \in BagToSet(commits) :
              StoreUpdate(w) =>
                 /\ {r.id : r \in store'} = {r.id : r \in store}
                 /\ Cardinality(store') = Cardinality(store)
                 /\ \A r \in store : r.id # w.id => r \in store'
                 /\ \A r \in store : r.id = w.id =>
                       \E q \in store' :
                          /\ q.id = r.id /\ q.user_id = r.user_id
                          /\ q.created_at = r.created_at
                          /\ q.name = w.name /\ q.amount = w.amount
                          /\ q.type = w.type /\ q.paid_by = w.paid_by ]_vars

\* Row 1 has been edited to amount 12.5 and is otherwise as it was; row 2 is
\* as it was.
C14_Witness ==
    /\ Cardinality(store) = 2
    /\ \E q \in store :
          /\ q.id = 1 /\ q.amount = 1250 /\ q.name = <<"x">>
          /\ q.user_id = Null /\ q.created_at = 1
    /\ \E q \in store : q.id = 2 /\ q \in TwoRows
    /\ commits = EmptyBag

C16_SingleCommitInFlight == BagCardinality(commits) <= 1

\* What remover and limparTudo do when their delete has been answered: on
\* success one select is sent and nothing is alerted, on failure the error
\* is alerted and no select is sent; the cache, the draft and the session
\* stay as they are.
DeleteOutcome(w) ==
    /\ UNCHANGED <<itens, saldo, sessionEmail, commits>>
    /\ UNCHANGED <<nome, valor, tipo, pagoPor, editando>>
    /\ w.phase = "ok" => reads' = reads (+) One(ReadSent("write")) /\ alerta' = alerta
    /\ w.phase = "error" => reads' = reads /\ alerta' = ErrorMessage

\* C17: remover(id) can be called whatever the draft and editando are and
\* changes neither; it sends one delete for that id; when the delete
\* succeeds one select is sent, when it fails the error is alerted, no select
\* is sent and no local state changes.
C17_DeleteLeavesDraftAlone ==
    [][ /\ \A id \in Ids(itens) :
              Remover(id) =>
                 /\ writes' = writes (+) One([op |-> "eq", id |-> id, phase |-> "sent"])
                 /\ UNCHANGED <<nome, valor, tipo, pagoPor, editando>>
                 /\ UNCHANGED <<itens, saldo, reads, store>>
        /\ \A w \in BagToSet(writes) :
              (w.op = "eq" /\ DeleteResume(w)) => DeleteOutcome(w)
        /\ (sessionEmail # Null /\ writes = EmptyBag) =>
              \A id \in Ids(itens) : ENABLED Remover(id) ]_vars

\* The record being edited has been deleted and the refresh is on its way:
\* editando and the draft are still those of the edit.
C17_Witness ==
    /\ editando # <<>>
    /\ nome = <<"y">>
    /\ valor = <<"1">>
    /\ store = {}
    /\ writes = EmptyBag
    /\ CopiesIn(ReadSent("write"), reads) = 1

\* C18: limparTudo sends one delete whose filter, id # SentinelId, is met by
\* every row, so the table is empty once it is executed and so is the cache
\* after the refresh that follows, no row having been inserted; when the
\* delete fails the error is alerted and no local state changes.
C18_ClearAllDeletesEveryRow ==
    [][ /\ LimparTudo =>
              /\ \E w \in BagToSet(writes') :
                    /\ writes' = writes (+) One(w)
                    /\ w.op = "neq"
                    /\ \A r \in store : r.id # w.id
              /\ UNCHANGED <<itens, saldo, reads, store>>
        /\ \A w \in BagToSet(writes) :
              (w.op = "neq" /\ StoreDelete(w)) => store' = {}
        /\ \A w \in BagToSet(writes) :
              (w.op = "neq" /\ DeleteResume(w)) => DeleteOutcome(w)
        /\ \A r \in BagToSet(reads) :
              ( /\ BuscarDespesasResume(r)
                /\ r.by = "write" /\ ~r.error /\ r.ver = storeVer
                /\ store = {} ) => itens' = <<>> ]_vars

\* Both rows went in one bulk delete, and the refresh that followed has
\* emptied the cache.
C18_Witness ==
    /\ store = {}
    /\ storeVer = 1
    /\ itens = <<>>
    /\ itensVer = 1
    /\ saldo = 0

\* C19: iniciarEdicao(e) sets editando to e and the draft to e's name, type
\* and payer and to the text of e's amount, a text that reads back as that
\* amount ("1" for 1.00, "0.3" for 0.30, "12.5" for 12.50), and sends nothing
\* to the table.
C19_BeginEditLoadsRecord ==
    [][ \A i \in 1..Len(itens) :
          IniciarEdicao(itens[i]) =>
             /\ editando' = <<itens[i]>>
             /\ nome' = itens[i].name
             /\ tipo' = itens[i].type
             /\ pagoPor' = itens[i].paid_by
             /\ Number(valor').finite
             /\ Number(valor').value = itens[i].amount
             /\ itens[i].amount = 100 => valor' = <<"1">>
             /\ itens[i].amount = 30 => valor' = <<"0", ".", "3">>
             /\ itens[i].amount = 1250 => valor' = <<"1", "2", ".", "5">>
             /\ UNCHANGED <<reads, writes, commits, store, itens>> ]_vars

\* Record 1, whose amount an earlier edit made 12.5, is being edited again.
C19_Witness ==
    /\ editando # <<>>
    /\ editando[1].id = 1
    /\ editando[1].amount = 1250
    /\ nome = <<"x">>
    /\ valor = <<"1", "2", ".", "5">>
    /\ tipo = "Per Person"
    /\ pagoPor = "Wife"

\* C20: the cancel button sets editando to null and the draft to its
\* defaults and sends nothing; the table and the cache are as they were
\* before iniciarEdicao, which changes neither.
C20_CancelReturnsToIdle ==
    [][ /\ Cancelar =>
              /\ editando' = <<>>
              /\ nome' = <<>> /\ valor' = <<>> /\ tipo' = "Shared" /\ pagoPor' = "You"
              /\ UNCHANGED <<reads, writes, commits, store, itens, saldo>>
        /\ \A i \in 1..Len(itens) :
              IniciarEdicao(itens[i]) => UNCHANGED <<store, itens, saldo>> ]_vars

\* An edit whose draft has been retyped, which the cancel button can end.
C20_Witness ==
    /\ editando # <<>>
    /\ nome = <<"y">>
    /\ valor = <<"a">>
    /\ tipo = "Shared"
    /\ ENABLED Cancelar

\* C21: when the select of a refresh fails, the cached snapshot and the
\* balance shown keep the value they had before the refresh, and the failure
\* is reported: buscarDespesas writes it to the console with console.error
\* (it shows no alert and returns nothing to its caller).
C21_FailedReadKeepsCache ==
    [][ \A r \in BagToSet(reads) :
          (BuscarDespesasResume(r) /\ r.error) =>
              /\ itens' = itens
              /\ saldo' = saldo
              /\ itensVer' = itensVer
              /\ console' = ErroAoBuscar
              /\ alerta' = alerta ]_vars

\* A failed refresh has been reported while the cache still lists a row
\* that the table has lost since the last successful read.
C21_Witness ==
    /\ console = ErroAoBuscar
    /\ itens # <<>>
    /\ itens # SelectOrdered(store)
    /\ reads = EmptyBag
    /\ writes = EmptyBag

\* C22: while a session is held, every change of the table, of any event
\* type and any row, puts a notification on the subscription; every
\* notification delivered sends exactly one select and leaves the cache as
\* it is; a select is answered with all rows of the table, and a successful
\* answer replaces the whole cached snapshot.
C22_NotificationTriggersFullRefresh ==
    [][ /\ (storeVer' # storeVer /\ effectChannel # 0) =>
               channels'[effectChannel].pending > channels[effectChannel].pending
        /\ \A c \in DOMAIN channels \cap DOMAIN channels' :
               channels'[c].pending < channels[c].pending =>
                   /\ sessionEmail # Null
                   /\ channels'[c].pending = channels[c].pending - 1
                   /\ reads' = reads (+) One(ReadSent("change"))
                   /\ UNCHANGED <<itens, itensVer, saldo>>
        /\ \A r \in BagToSet(reads) :
               /\ StoreRead(r) =>
                      \E q \in BagToSet(reads') :
                          /\ q.phase = "resp"
                          /\ q.by = r.by
                          /\ q.data = SelectOrdered(store)
               /\ (BuscarDespesasResume(r) /\ ~r.error) => itens' = r.data ]_vars

\* The select sent for a notification has been answered with a snapshot
\* that differs from the cached one, while another select is in flight.
C22_Witness ==
    /\ sessionEmail # Null
    /\ \E r \in BagToSet(reads) :
           /\ r.by = "change"
           /\ r.phase = "resp"
           /\ r.data # itens
    /\ BagCardinality(reads) = 2

\* C23: while the channel delivers no notification and no request fails,
\* once a write of this browser has succeeded and every request it sent has
\* completed, the cached snapshot lists the table's rows as that write left
\* them.
C23_OwnWriteReflected ==
    ( /\ storeVer > 0
      /\ initPc = "done"
      /\ reads = EmptyBag
      /\ writes = EmptyBag
      /\ commits = EmptyBag )
    => itens = SelectOrdered(store)

\* The row q holds the name, amount, type and payer that the commit w took
\* from the draft.
SameFields(q, w) ==
    /\ q.name = w.name
    /\ q.amount = w.amount
    /\ q.type = w.type
    /\ q.paid_by = w.paid_by

\* The rows the table held once `ver` changes had been applied, where
\* every change is an insert: row id is the insert of change id - 1.
RowsAt(ver) == {q \in store : q.id - 1 <= ver}

\* C24: where rows are only inserted, a commit that is told of its
\* insert's success finds in the table a row with the name, amount, type
\* and payer its draft had, and sends a select; a select is answered with
\* every row of the table unchanged; a successful answer becomes the
\* snapshot.  So the snapshot of any select served after the insert lists a
\* record identical to the draft in those four fields.
C24_InsertRoundTrip ==
    [][ /\ \A w \in BagToSet(commits) :
              (SalvarOuAtualizarResume(w) /\ w.phase = "ok" /\ w.op = "insert") =>
                  /\ \E q \in RowsAt(storeVer) : SameFields(q, w) /\ q.id >= 2
                  /\ reads' = reads (+) One(ReadSent("write"))
        /\ \A r \in BagToSet(reads) :
              /\ StoreRead(r) =>
                    \E a \in BagToSet(reads') :
                       /\ a.phase = "resp" /\ ~a.error /\ a.ver = storeVer
                       /\ \A q \in store : \E i \in 1..Len(a.data) : a.data[i] = q
              /\ (BuscarDespesasResume(r) /\ ~r.error) =>
                    /\ itens' = r.data
                    /\ \A q \in RowsAt(r.ver) : \E i \in 1..Len(itens') : itens'[i] = q
        /\ store \subseteq store' ]_vars

\* The draft ("y", "12,50", Shared, You) has been committed and the
\* refresh that followed has completed: the snapshot lists it.
C24_Witness ==
    /\ commits = EmptyBag
    /\ reads = EmptyBag
    /\ itensVer = 1
    /\ \E i \in 1..Len(itens) :
          /\ itens[i].id = 2
          /\ itens[i].name = <<"y">>
          /\ itens[i].amount = 1250
          /\ itens[i].type = "Shared"
          /\ itens[i].paid_by = "You"

\* The snapshot `list` in the order p.
Permuted(list, p) == [i \in 1..Len(list) |-> list[p[i]]]

\* C25: the balance does not depend on the order of the records: every
\* permutation of the cached snapshot has the balance shown; and computing
\* the balance of the unchanged snapshot again gives the balance shown.
C25_BalanceIsOrderIndependent ==
    /\ Saldo(itens) = saldo
    /\ \A p \in Permutations(1..Len(itens)) : Saldo(Permuted(itens, p)) = saldo

\* The capital and the small form of each letter of the model's alphabet.
CasePairs == {<<"A", "a">>, <<"B", "b">>, <<"C", "c">>}

SameLetter(c, d) == c = d \/ \E p \in CasePairs : {c, d} = {p[1], p[2]}

\* The strings s and t differ in letter case at most.
EqualsIgnoringCase(s, t) ==
    /\ Len(s) = Len(t)
    /\ \A i \in 1..Len(s) : SameLetter(s[i], t[i])

\* Some entry of the configured text env is the identity, letter case and
\* surrounding blanks aside.
Configured(env, identity) ==
    \E i \in 1..Len(Split(env)) :
        EqualsIgnoringCase(Trim(Split(env)[i]), Trim(identity))

\* C26: under every configured list, whatever the letter case of its
\* entries, two identities that differ only in letter case are both
\* authorized or both refused; an identity is authorized exactly when some
\* configured entry equals it up to letter case; and entrar sends the
\* sign-in request exactly for those identities and alerts the others.
C26_AllowListIgnoresCase ==
    [][ \A env \in EnvInputs :
          allowedEmails = ParseAllowed(env) =>
            /\ \A s, t \in CaseInputs :
                  EqualsIgnoringCase(s, t) => (IsAuthorized(s) <=> IsAuthorized(t))
            /\ \A s \in CaseInputs : IsAuthorized(s) <=> Configured(env, s)
            /\ Entrar => (otp' # NoOtp <=> Configured(env, email))
            /\ Entrar => (~Configured(env, email) => alerta' = AcessoRestrito) ]_vars

\* Under the list "a, B" the sign-in request for the typed "b" has left.
C26_Witness ==
    /\ allowedEmails = ParseAllowed(EnvAllowed)
    /\ email = <<"b">>
    /\ otp = <<"b">>
    /\ carregando

\* C27: entrar with an e-mail on the allow-list sends the request and,
\* whether it is answered ok or with an error, clears carregando and
\* alerts the outcome; neither step changes sessionEmail, the provider's
\* session or its notifications.  sessionEmail changes only when the
\* start-up query returns or an identity-change notification is delivered.
C27_EntrarLeavesSession ==
    [][ /\ (Entrar /\ IsAuthorized(email)) =>
              /\ otp' = ToLower(Trim(email))
              /\ carregando'
              /\ UNCHANGED <<sessionEmail, provSession, authEvents, initPc>>
        /\ \A error \in BOOLEAN :
              EntrarResume(error) =>
                 /\ ~carregando'
                 /\ alerta' = (IF error THEN ErrorMessage ELSE LinkEnviado)
                 /\ UNCHANGED <<sessionEmail, provSession, authEvents, initPc>>
        /\ sessionEmail' # sessionEmail =>
              SessionEffectResume \/ OnAuthStateChange ]_vars

\* The request for " A" has been answered ok: the link is announced and
\* there is still no session.
C27_Witness ==
    /\ email = <<" ", "A">>
    /\ alerta = LinkEnviado
    /\ otp = NoOtp
    /\ ~carregando
    /\ sessionEmail = Null
    /\ provSession = Null
    /\ initPc = "done"

\* C28: no row of the table has a negative amount, whatever text was typed
\* as the amount of the drafts committed.
C28_AmountsNonNegative == \A q \in store : q.amount >= 0

\* C29: at most one select of buscarDespesas is in flight at any time.
C29_SingleRefreshInFlight == BagCardinality(reads) <= 1

\* A step of the edit session: typing and choosing, iniciarEdicao, the
\* cancel button, and the end of a commit whose write succeeded.
EditSessionStep ==
    \/ \E v \in NomeInputs : SetNome(v)
    \/ \E v \in ValorInputs : SetValor(v)
    \/ \E v \in TipoDespesa : SetTipo(v)
    \/ \E v \in Pessoa : SetPagoPor(v)
    \/ \E i \in 1..Len(itens) : IniciarEdicao(itens[i])
    \/ Cancelar
    \/ \E w \in BagToSet(commits) : SalvarOuAtualizarResume(w) /\ w.phase = "ok"

C31_SuccessfulUpdateChangedARow ==
    [][ \A w \in BagToSet(commits) :
          StoreUpdate(w) =>
              \E q \in store' : q.id = w.id /\ SameFields(q, w) ]_vars

\* The draft and editando are those the commit w was made with.
DraftIsOf(w) ==
    /\ nome = w.name
    /\ ParseValor(valor).finite
    /\ ParseValor(valor).value = w.amount
    /\ tipo = w.type
    /\ pagoPor = w.paid_by
    /\ IF w.op = "update"
       THEN editando # <<>> /\ editando[1].id = w.id
       ELSE editando = <<>>

\* C32: the end of a successful commit resets only the draft that was
\* committed: when the draft or editando has been changed since the commit
\* was made, by iniciarEdicao or by typing, they stay as they are, so
\* editando is never left set beside a draft emptied by another commit.
C32_SuccessTouchesOwnDraftOnly ==
    [][ \A w \in BagToSet(commits) :
          (SalvarOuAtualizarResume(w) /\ w.phase = "ok" /\ ~DraftIsOf(w)) =>
              UNCHANGED <<nome, valor, tipo, pagoPor, editando>> ]_vars

\* C33: in a step that begins and ends with sessionEmail null, the cached
\* snapshot and the balance stay as they are and no select leaves.
C33_SignedOutCacheIsIdle ==
    [][ (sessionEmail = Null /\ sessionEmail' = Null) =>
            /\ UNCHANGED <<itens, itensVer, saldo>>
            /\ \A r \in BagToSet(reads') :
                  r.phase = "sent" => CopiesIn(r, reads') <= CopiesIn(r, reads) ]_vars

\* C34: under every configured list, entrar with an e-mail that is empty
\* once trimmed alerts that access is restricted and sends no request to
\* the provider.
C34_BlankIdentityRefused ==
    [][ (Entrar /\ Trim(email) = <<>>) =>
            /\ alerta' = AcessoRestrito
            /\ otp' = NoOtp
            /\ ~carregando' ]_vars

\* What every variant makes of the one-record snapshot <<e>>.
SingleRecordAgrees(e) ==
    LET c == Contribution(e) IN
    /\ Saldo(<<e>>) = c
    /\ SaldoPart000(<<e>>) = c
    /\ SaldoPart001(<<e>>) = c
    /\ SaldoPart002(<<e>>) = c

\* C35: for the cached snapshot the saldo of part_000, of part_001 and of
\* part_002 each equal the saldo of App.tsx; and each of the four takes a
\* record alone at its contribution, a Per Person one at its whole amount.
C35_VariantsAgree ==
    /\ SaldoPart000(itens) = saldo
    /\ SaldoPart001(itens) = saldo
    /\ SaldoPart002(itens) = saldo
    /\ \A i \in 1..Len(itens) : SingleRecordAgrees(itens[i])

====
